---- MODULE Spec2Model ----
(***************************************************************************)
(* Hospital triage service (src/main.py): POST /recommend answers with one *)
(* department for one patient, preferring the reply of a generative chain  *)
(* validated against an allow-list and falling back to a majority vote     *)
(* over the SYMPTOM_TO_DEPT table; POST /stats counts the rule-based       *)
(* department of every patient of a batch.                                 *)
(*                                                                         *)
(* Strings are TLA+ strings; lower() and strip() are computed character by *)
(* character.  The process is modelled from module import (Init) on: one   *)
(* request is handled at a time (each handler is one action), and Respond  *)
(* hands the response to the caller and ends the request.                  *)
(***************************************************************************)
EXTENDS Integers, Sequences, FiniteSets, TLC

VARIABLES
    chain,          \* main.py:79-82  the RunnableSequence, or None
    hashSeed,       \* the process's str-hash salt: the iteration order of set()
    llmCalls,       \* number of chain.invoke calls made so far
    request,        \* the request being handled, NoRequest when idle
    invoked,        \* what chain.invoke did for the request being handled
    response,       \* the response of the request being handled
    lastRuleBased   \* the last 200 answer /recommend gave while chain was None

vars == <<chain, hashSeed, llmCalls, request, invoked, response, lastRuleBased>>

(***************************************************************************)
(* Bounds of the model.                                                    *)
(***************************************************************************)
MaxSymptoms == 3    \* longest symptom list sent to /recommend
MaxPatients == 2    \* longest batch sent to /stats
MaxCalls == 1       \* chain.invoke calls after which the model stops calling

(***************************************************************************)
(* str.lower() and str.strip(), over ASCII.                                *)
(***************************************************************************)
ascii_uppercase == "ABCDEFGHIJKLMNOPQRSTUVWXYZ"
ascii_lowercase == "abcdefghijklmnopqrstuvwxyz"

CharAt(s, i) == SubSeq(s, i, i)

\* the lowercase of every uppercase letter
LowerTable ==
    [c \in {CharAt(ascii_uppercase, i) : i \in 1..Len(ascii_uppercase)} |->
        CharAt(ascii_lowercase,
               CHOOSE i \in 1..Len(ascii_uppercase) : CharAt(ascii_uppercase, i) = c)]

LowerChar(c) == IF c \in DOMAIN LowerTable THEN LowerTable[c] ELSE c

RECURSIVE lower(_)
lower(s) == IF s = "" THEN "" ELSE LowerChar(Head(s)) \o lower(Tail(s))

Whitespace == {" ", "\t", "\n", "\r", "\f"}

RECURSIVE lstrip(_)
lstrip(s) == IF s # "" /\ Head(s) \in Whitespace THEN lstrip(Tail(s)) ELSE s

RECURSIVE rstrip(_)
rstrip(s) ==
    IF s # "" /\ CharAt(s, Len(s)) \in Whitespace
    THEN rstrip(SubSeq(s, 1, Len(s) - 1))
    ELSE s

strip(s) == rstrip(lstrip(s))

(***************************************************************************)
(* Module-level data.                                                      *)
(***************************************************************************)
SYMPTOM_TO_DEPT ==
    ("pusing" :> "Neurology") @@
    ("sakit kepala" :> "Neurology") @@
    ("sulit berjalan" :> "Neurology") @@
    ("kehilangan keseimbangan" :> "Neurology") @@
    ("mual" :> "Gastroenterology") @@
    ("sakit perut" :> "Gastroenterology") @@
    ("batuk" :> "Pulmonology") @@
    ("sesak napas" :> "Pulmonology") @@
    ("susah tidur" :> "Psychiatry") @@
    ("menggigil" :> "Internal Medicine") @@
    ("memar di tangan" :> "Dermatology") @@
    ("gusi berdarah" :> "Dentistry")

valid_departments ==
    << "Neurology", "Cardiology", "Gastroenterology", "Pulmonology",
       "Psychiatry", "Internal Medicine", "Dentistry", "Dermatology",
       "General Medicine" >>

None == "None"
RunnableSequence == "RunnableSequence"

(***************************************************************************)
(* Python built-ins the handlers use.                                      *)
(***************************************************************************)
\* dict.get(key, default)
Get(d, key, default) == IF key \in DOMAIN d THEN d[key] ELSE default

\* x in list
In(x, list) == \E i \in DOMAIN list : list[i] = x

\* list.count(x)
count(list, x) == Cardinality({i \in DOMAIN list : list[i] = x})

\* the distinct elements of a list, in order of first occurrence: the key
\* order of Counter(list)
RECURSIVE FirstOccurrences(_)
FirstOccurrences(list) ==
    IF list = <<>> THEN <<>>
    ELSE LET init == FirstOccurrences(SubSeq(list, 1, Len(list) - 1))
             x == list[Len(list)]
         IN  IF In(x, init) THEN init ELSE Append(init, x)

\* Position of a string in the order the process's hash salt induces.
HashRank(seed, x) == CHOOSE i \in DOMAIN seed : seed[i] = x

\* iter(set(list)): the distinct elements in the order of the hash table,
\* which the salt fixes for the life of the process.
RECURSIVE SetIter(_, _)
SetIter(seed, S) ==
    IF S = {} THEN <<>>
    ELSE LET x == CHOOSE y \in S : \A z \in S : HashRank(seed, y) <= HashRank(seed, z)
         IN  <<x>> \o SetIter(seed, S \ {x})

\* max(iterable, key=..., default=...): the first element of the iteration
\* whose key no other exceeds.  key maps each element to its key value.
MaxBy(it, key, default) ==
    IF it = <<>> THEN default
    ELSE it[CHOOSE i \in DOMAIN it :
                /\ \A j \in DOMAIN it : key[it[j]] <= key[it[i]]
                /\ \A j \in 1..(i - 1) : key[it[j]] < key[it[i]]]

\* Counter(list) as a dict
Counter(list) ==
    [d \in {list[i] : i \in DOMAIN list} |-> count(list, d)]

(***************************************************************************)
(* The expressions of the two handlers.                                    *)
(***************************************************************************)
\* main.py:109 and main.py:151
DeptsOf(symptoms) ==
    [i \in DOMAIN symptoms |->
        Get(SYMPTOM_TO_DEPT, lower(symptoms[i]), "General Medicine")]

\* max() without key=departments.count: the first element of the set
RecommendMostCommon_NoKey(seed, departments) ==
    LET key == [d \in {departments[i] : i \in DOMAIN departments} |-> 0]
    IN  MaxBy(SetIter(seed, {departments[i] : i \in DOMAIN departments}),
              key, "General Mdicine")

\* main.py:111
RecommendMostCommon(seed, departments) ==
    LET key == [d \in {departments[i] : i \in DOMAIN departments} |->
                   count(departments, d)]
    IN  MaxBy(SetIter(seed, {departments[i] : i \in DOMAIN departments}),
              key, "General Mdicine")

\* the department of the first symptom instead of the most common one
StatsMostCommon_FirstSymptom(patient_depts) ==
    IF patient_depts # <<>> THEN patient_depts[1] ELSE "General Medicine"

\* main.py:152  Counter.most_common(1) is max() over the items in key order
StatsMostCommon(patient_depts) ==
    IF patient_depts # <<>>
    THEN LET key == [d \in {patient_depts[i] : i \in DOMAIN patient_depts} |->
                        count(patient_depts, d)]
         IN  MaxBy(FirstOccurrences(patient_depts), key, "")
    ELSE "General Medicine"

\* the reply returned without the allow-list test
ValidatedReply_Unchecked(content) == strip(content)

\* the reply tested against the allow-list without strip()
ValidatedReply_NoStrip(content) ==
    IF In(content, valid_departments) THEN content ELSE None

\* main.py:97-103
ValidatedReply(content) ==
    LET department == strip(content)
    IN  IF In(department, valid_departments) THEN department ELSE None

(***************************************************************************)
(* Requests, responses, and what the collaborator may do.                  *)
(***************************************************************************)
NoRequest == [endpoint |-> "", patients |-> <<>>]
NoOutcome == [called |-> FALSE, raises |-> FALSE, content |-> ""]
NoResponse ==
    [status |-> 0, detail |-> "", recommended_department |-> "",
     department_counts |-> <<>>]
NoAnswer == [symptoms |-> <<>>, recommended_department |-> ""]

HTTPException(status_code, detail) ==
    [status |-> status_code, detail |-> detail, recommended_department |-> "",
     department_counts |-> <<>>]

RecommendationOutput(recommended_department) ==
    [status |-> 200, detail |-> "",
     recommended_department |-> recommended_department,
     department_counts |-> <<>>]

StatsOutput(department_counts) ==
    [status |-> 200, detail |-> "", recommended_department |-> "",
     department_counts |-> department_counts]

\* symptom strings the callers send
Symptoms == {"pusing", "mual", "Batuk", "demam"}

RECURSIVE ListsUpTo(_, _)
ListsUpTo(S, n) ==
    IF n = 0 THEN {<<>>}
    ELSE LET shorter == ListsUpTo(S, n - 1)
         IN  shorter \cup {Append(l, x) : l \in {m \in shorter : Len(m) = n - 1}, x \in S}

PatientInput(symptoms) == [gender |-> "female", age |-> 30, symptoms |-> symptoms]

RecommendPatients == {PatientInput(l) : l \in ListsUpTo(Symptoms, MaxSymptoms)}

\* patients the batches are made of
BatchPatients ==
    { PatientInput(<<>>),
      PatientInput(<<"batuk">>),
      PatientInput(<<"Batuk", "demam">>),
      PatientInput(<<"mual", "pusing">>),
      PatientInput(<<"mual", "pusing", "pusing">>) }

Batches == ListsUpTo(BatchPatients, MaxPatients)

\* what chain.invoke may do: raise, or return a message with some content
Replies ==
    { "Cardiology", "  Neurology\n", "neurology", "Neurology department",
      "General Mdicine" }

LLMOutcomes ==
    {[called |-> TRUE, raises |-> TRUE, content |-> ""]} \cup
    {[called |-> TRUE, raises |-> FALSE, content |-> c] : c \in Replies}

\* orders in which the process's hash salt may place the department strings
HashSeeds ==
    { valid_departments,
      [i \in DOMAIN valid_departments |->
          valid_departments[Len(valid_departments) + 1 - i]],
      << "Gastroenterology", "General Medicine", "Pulmonology", "Neurology",
         "Dermatology", "Cardiology", "Psychiatry", "Dentistry",
         "Internal Medicine" >> }

(***************************************************************************)
(* Module import: the chain is built, or is None when the model client     *)
(* could not be constructed.                                               *)
(***************************************************************************)
Init ==
    /\ chain \in {None, RunnableSequence}
    /\ hashSeed \in HashSeeds
    /\ llmCalls = 0
    /\ request = NoRequest
    /\ invoked = NoOutcome
    /\ response = NoResponse
    /\ lastRuleBased = NoAnswer

(***************************************************************************)
(* POST /recommend                                                         *)
(***************************************************************************)
\* gender, age and the comma-joined symptoms (main.py:89) only fill the
\* prompt; what the chain does with them is the outcome, which is any of
\* LLMOutcomes.

\* whether the handler reaches chain.invoke
Invokes(patient) == patient.symptoms # <<>> /\ chain # None

\* without the try/except: an exception of chain.invoke reaches the caller
RecommendResponse_Propagates(patient, outcome) ==
    IF patient.symptoms = <<>>
    THEN HTTPException(400, "Symptoms list cannot be empty")
    ELSE IF outcome.called /\ outcome.raises
    THEN HTTPException(500, "Internal Server Error")
    ELSE IF outcome.called /\ ValidatedReply(outcome.content) # None
    THEN RecommendationOutput(ValidatedReply(outcome.content))
    ELSE RecommendationOutput(RecommendMostCommon(hashSeed, DeptsOf(patient.symptoms)))

RecommendResponse(patient, outcome) ==
    IF patient.symptoms = <<>>
    THEN HTTPException(400, "Symptoms list cannot be empty")
    ELSE IF outcome.called /\ ~outcome.raises /\ ValidatedReply(outcome.content) # None
    THEN RecommendationOutput(ValidatedReply(outcome.content))
    ELSE RecommendationOutput(RecommendMostCommon(hashSeed, DeptsOf(patient.symptoms)))

\* a handler whose set() order is drawn anew for every call
recommned_department_Resalted(patient, outcome) ==
    /\ request = NoRequest
    /\ outcome.called = Invokes(patient)
    /\ outcome.called => llmCalls < MaxCalls
    /\ request' = [endpoint |-> "/recommend", patients |-> <<patient>>]
    /\ invoked' = outcome
    /\ llmCalls' = IF outcome.called THEN llmCalls + 1 ELSE llmCalls
    /\ \E seed \in HashSeeds :
          response' =
             IF patient.symptoms = <<>>
             THEN HTTPException(400, "Symptoms list cannot be empty")
             ELSE IF outcome.called /\ ~outcome.raises
                     /\ ValidatedReply(outcome.content) # None
             THEN RecommendationOutput(ValidatedReply(outcome.content))
             ELSE RecommendationOutput(
                      RecommendMostCommon(seed, DeptsOf(patient.symptoms)))
    /\ UNCHANGED <<chain, hashSeed, lastRuleBased>>

recommned_department(patient, outcome) ==
    /\ request = NoRequest
    /\ outcome.called = Invokes(patient)
    /\ outcome.called => llmCalls < MaxCalls
    /\ request' = [endpoint |-> "/recommend", patients |-> <<patient>>]
    /\ invoked' = outcome
    /\ llmCalls' = IF outcome.called THEN llmCalls + 1 ELSE llmCalls
    /\ response' = RecommendResponse(patient, outcome)
    /\ UNCHANGED <<chain, hashSeed, lastRuleBased>>

(***************************************************************************)
(* POST /stats                                                             *)
(***************************************************************************)
\* without the skip of patients that have no symptoms
RECURSIVE StatsDepartments_NoSkip(_)
StatsDepartments_NoSkip(patients) ==
    IF patients = <<>> THEN <<>>
    ELSE Append(StatsDepartments_NoSkip(SubSeq(patients, 1, Len(patients) - 1)),
                StatsMostCommon(DeptsOf(patients[Len(patients)].symptoms)))

RECURSIVE StatsDepartments(_)
StatsDepartments(patients) ==
    IF patients = <<>> THEN <<>>
    ELSE LET rest == StatsDepartments(SubSeq(patients, 1, Len(patients) - 1))
             patient == patients[Len(patients)]
         IN  IF patient.symptoms = <<>> THEN rest
             ELSE Append(rest, StatsMostCommon(DeptsOf(patient.symptoms)))

\* a batch in which every patient was skipped rejected like an empty batch
StatsResponse_RejectsAllSkipped(patients) ==
    IF patients = <<>> \/ StatsDepartments(patients) = <<>>
    THEN HTTPException(400, "Patient list cannot be empty")
    ELSE StatsOutput(Counter(StatsDepartments(patients)))

StatsResponse(patients) ==
    IF patients = <<>>
    THEN HTTPException(400, "Patient list cannot be empty")
    ELSE StatsOutput(Counter(StatsDepartments(patients)))

\* a batch handler that asks the chain once, as /recommend does
department_stats_Invokes(patients) ==
    /\ request = NoRequest
    /\ request' = [endpoint |-> "/stats", patients |-> patients]
    /\ invoked' = NoOutcome
    /\ llmCalls' = IF chain # None /\ llmCalls < MaxCalls THEN llmCalls + 1 ELSE llmCalls
    /\ response' = StatsResponse(patients)
    /\ UNCHANGED <<chain, hashSeed, lastRuleBased>>

department_stats(patients) ==
    /\ request = NoRequest
    /\ request' = [endpoint |-> "/stats", patients |-> patients]
    /\ invoked' = NoOutcome
    /\ response' = StatsResponse(patients)
    /\ UNCHANGED <<chain, hashSeed, llmCalls, lastRuleBased>>

(***************************************************************************)
(* The response goes to the caller and the request ends.                   *)
(***************************************************************************)
Respond ==
    /\ request # NoRequest
    /\ lastRuleBased' =
          IF request.endpoint = "/recommend" /\ response.status = 200 /\ chain = None
          THEN [symptoms |-> request.patients[1].symptoms,
                recommended_department |-> response.recommended_department]
          ELSE lastRuleBased
    /\ request' = NoRequest
    /\ invoked' = NoOutcome
    /\ response' = NoResponse
    /\ UNCHANGED <<chain, hashSeed, llmCalls>>

\* the server takes the next request once the one before is answered
Idle == request = NoRequest

Next ==
    \/ /\ Idle
       /\ \E patient \in RecommendPatients :
             \E outcome \in LLMOutcomes \cup {NoOutcome} :
                 recommned_department(patient, outcome)
    \/ /\ Idle
       /\ \E patients \in Batches : department_stats(patients)
    \/ Respond

Spec == Init /\ [][Next]_vars

(***************************************************************************)
(* The two majority expressions as pure functions: a specification that    *)
(* applies main.py:111 and main.py:152 to every symptom list, the empty    *)
(* one included (the handlers never pass it).                              *)
(***************************************************************************)
InitExpr ==
    /\ chain = None
    /\ hashSeed \in HashSeeds
    /\ llmCalls = 0
    /\ request \in {[endpoint |-> "symptoms", patients |-> <<p>>] : p \in RecommendPatients}
    /\ invoked = NoOutcome
    /\ response = NoResponse
    /\ lastRuleBased = NoAnswer

EvalRecommendExpr ==
    /\ request.endpoint = "symptoms"
    /\ request' = [request EXCEPT !.endpoint = "main.py:111"]
    /\ response' = RecommendationOutput(
                       RecommendMostCommon(hashSeed, DeptsOf(request.patients[1].symptoms)))
    /\ UNCHANGED <<chain, hashSeed, llmCalls, invoked, lastRuleBased>>

EvalStatsExpr ==
    /\ request.endpoint = "symptoms"
    /\ request' = [request EXCEPT !.endpoint = "main.py:152"]
    /\ response' = RecommendationOutput(
                       StatsMostCommon(DeptsOf(request.patients[1].symptoms)))
    /\ UNCHANGED <<chain, hashSeed, llmCalls, invoked, lastRuleBased>>

NextExpr == EvalRecommendExpr \/ EvalStatsExpr

SpecExpr == InitExpr /\ [][NextExpr]_vars

(***************************************************************************)
(* Vocabulary of the properties.                                           *)
(***************************************************************************)
RecommendHandled == request.endpoint = "/recommend"
StatsHandled == request.endpoint = "/stats"

\* the symptom list of the /recommend request being handled
AskedSymptoms == request.patients[1].symptoms

AllowList ==
    { "Neurology", "Cardiology", "Gastroenterology", "Pulmonology", "Psychiatry",
      "Internal Medicine", "Dentistry", "Dermatology", "General Medicine" }

\* every symptom string a caller sends
SentSymptoms ==
    Symptoms \cup
    UNION {{p.symptoms[i] : i \in DOMAIN p.symptoms} : p \in BatchPatients}

\* the table entry of each sent symptom, letter case ignored; General
\* Medicine if it has none
LookupOf ==
    [symptom \in SentSymptoms |->
        IF \E k \in DOMAIN SYMPTOM_TO_DEPT : lower(k) = lower(symptom)
        THEN SYMPTOM_TO_DEPT[CHOOSE k \in DOMAIN SYMPTOM_TO_DEPT :
                                 lower(k) = lower(symptom)]
        ELSE "General Medicine"]

Lookup(symptom) == LookupOf[symptom]

\* how many symptoms of the list look up to department d
Votes(symptoms, d) ==
    Cardinality({i \in DOMAIN symptoms : Lookup(symptoms[i]) = d})

\* d is a most frequent department of the list
Maximal(symptoms, d) ==
    /\ Votes(symptoms, d) >= 1
    /\ \A i \in DOMAIN symptoms : Votes(symptoms, Lookup(symptoms[i])) <= Votes(symptoms, d)

\* d is the only most frequent department of the list
UniqueMaximal(symptoms, d) ==
    /\ Maximal(symptoms, d)
    /\ \A i \in DOMAIN symptoms :
          Lookup(symptoms[i]) # d =>
              Votes(symptoms, Lookup(symptoms[i])) < Votes(symptoms, d)

\* content is name with nothing but whitespace around it
TrimsTo(content, name) ==
    \E i \in 1..(Len(content) + 1) : \E j \in 0..Len(content) :
        /\ SubSeq(content, i, j) = name
        /\ \A k \in 1..(i - 1) : CharAt(content, k) \in Whitespace
        /\ \A k \in (j + 1)..Len(content) : CharAt(content, k) \in Whitespace

RECURSIVE SumOf(_)
SumOf(f) ==
    IF DOMAIN f = {} THEN 0
    ELSE LET d == CHOOSE x \in DOMAIN f : TRUE
         IN  f[d] + SumOf([x \in DOMAIN f \ {d} |-> f[x]])

\* the patients of the batch that have symptoms
Retained(patients) == {i \in DOMAIN patients : patients[i].symptoms # <<>>}

(***************************************************************************)
(* C1: /recommend answers 400 exactly when the symptom list is empty; for  *)
(* every non-empty list it answers 200 with a department, whatever the     *)
(* collaborator did (not configured, raised, replied anything).            *)
(***************************************************************************)
C1_RecommendFailsOnlyOnEmptySymptoms ==
    RecommendHandled =>
        /\ response.status = 400 <=> AskedSymptoms = <<>>
        /\ AskedSymptoms # <<>> =>
              response.status = 200 /\ response.recommended_department # ""

C1_Witness ==
    /\ RecommendHandled
    /\ invoked.called /\ invoked.raises
    /\ response.status = 200

(***************************************************************************)
(* C2: every department in a 200 response of /recommend is in the          *)
(* allow-list, from the generative path and from the fallback alike.       *)
(***************************************************************************)
C2_RecommendedDepartmentInAllowList ==
    /\ \A k \in DOMAIN SYMPTOM_TO_DEPT : SYMPTOM_TO_DEPT[k] \in AllowList
    /\ (RecommendHandled /\ response.status = 200) =>
          response.recommended_department \in AllowList

C2_Witness ==
    /\ RecommendHandled
    /\ invoked.called /\ ~invoked.raises /\ invoked.content = "neurology"
    /\ response.status = 200

(***************************************************************************)
(* C3: with the collaborator unavailable, /recommend on a non-empty list   *)
(* returns a department whose count among the per-symptom lookups          *)
(* (lowercased, unknown symptoms counting as General Medicine) is maximal; *)
(* a single table symptom in any letter case gives its department, a       *)
(* single unknown symptom General Medicine, and pusing, mual, pusing       *)
(* gives Neurology.                                                        *)
(***************************************************************************)
C3_FallbackReturnsMaximalDepartment ==
    (RecommendHandled /\ chain = None /\ AskedSymptoms # <<>>) =>
        /\ response.status = 200
        /\ Maximal(AskedSymptoms, response.recommended_department)
        /\ AskedSymptoms = <<"Batuk">> => response.recommended_department = "Pulmonology"
        /\ AskedSymptoms = <<"demam">> =>
              response.recommended_department = "General Medicine"
        /\ AskedSymptoms = <<"pusing", "mual", "pusing">> =>
              response.recommended_department = "Neurology"

C3_Witness ==
    /\ RecommendHandled /\ chain = None
    /\ AskedSymptoms = <<"pusing", "mual", "pusing">>
    /\ response.recommended_department = "Neurology"

(***************************************************************************)
(* C4: department_counts of an accepted batch maps each department to the  *)
(* number of patients with symptoms whose rule-based department it is:     *)
(* patients without symptoms count nowhere, every key has a count of at    *)
(* least 1, the counts sum to the number of patients with symptoms, and    *)
(* the batch [batuk], [] gives Pulmonology: 1.                             *)
(***************************************************************************)
C4_CountsAreExact ==
    (StatsHandled /\ response.status = 200) =>
        LET counts == response.department_counts
            kept == Retained(request.patients)
            of(i) == StatsMostCommon(DeptsOf(request.patients[i].symptoms))
        IN  /\ DOMAIN counts = {of(i) : i \in kept}
            /\ \A d \in DOMAIN counts :
                  /\ counts[d] = Cardinality({i \in kept : of(i) = d})
                  /\ counts[d] >= 1
            /\ \A i \in kept : Maximal(request.patients[i].symptoms, of(i))
            /\ SumOf(counts) = Cardinality(kept)
            /\ request.patients = <<PatientInput(<<"batuk">>), PatientInput(<<>>)>> =>
                  counts = ("Pulmonology" :> 1)

C4_Witness ==
    /\ StatsHandled /\ response.status = 200
    /\ request.patients = <<PatientInput(<<"batuk">>), PatientInput(<<>>)>>
    /\ response.department_counts = ("Pulmonology" :> 1)

(***************************************************************************)
(* C5: /stats answers 400 exactly when the batch itself is empty; a        *)
(* non-empty batch whose patients all have no symptoms gets a 200 with an  *)
(* empty department_counts.                                                *)
(***************************************************************************)
C5_StatsFailsOnlyOnEmptyBatch ==
    StatsHandled =>
        /\ response.status = 400 <=> request.patients = <<>>
        /\ request.patients # <<>> => response.status = 200
        /\ (request.patients # <<>> /\ Retained(request.patients) = {}) =>
              response.department_counts = <<>>

C5_Witness ==
    /\ StatsHandled
    /\ request.patients = <<PatientInput(<<>>), PatientInput(<<>>)>>
    /\ response.status = 200
    /\ response.department_counts = <<>>

C7_StatsCountsWhatRecommendReturns ==
    (StatsHandled /\ response.status = 200) =>
        \A i \in Retained(request.patients) :
            request.patients[i].symptoms = lastRuleBased.symptoms =>
                /\ lastRuleBased.recommended_department \in DOMAIN response.department_counts
                /\ Len(request.patients) = 1 =>
                      response.department_counts =
                          (lastRuleBased.recommended_department :> 1)

(***************************************************************************)
(* C7 as amended: when one department is the single most frequent lookup   *)
(* of a patient's symptoms, /stats counts for the patient the department   *)
(* /recommend returned for the same symptoms with the collaborator         *)
(* disabled; on a tie both are among the most frequent departments.        *)
(***************************************************************************)
C7_StatsAgreesOutsideTies ==
    (StatsHandled /\ response.status = 200) =>
        \A i \in Retained(request.patients) :
            request.patients[i].symptoms = lastRuleBased.symptoms =>
                LET symptoms == lastRuleBased.symptoms
                    recommended == lastRuleBased.recommended_department
                IN  /\ Maximal(symptoms, recommended)
                    /\ UniqueMaximal(symptoms, recommended) =>
                          recommended \in DOMAIN response.department_counts
                    /\ Len(request.patients) = 1 =>
                          \E d \in DOMAIN response.department_counts :
                              /\ response.department_counts = (d :> 1)
                              /\ Maximal(symptoms, d)
                              /\ UniqueMaximal(symptoms, recommended) => d = recommended

C7_Witness ==
    /\ StatsHandled /\ response.status = 200
    /\ request.patients = <<PatientInput(<<"mual", "pusing", "pusing">>)>>
    /\ lastRuleBased.symptoms = <<"mual", "pusing", "pusing">>
    /\ response.department_counts = ("Neurology" :> 1)

(***************************************************************************)
(* C8: when the collaborator's reply, whitespace around it removed, is     *)
(* exactly an allow-list name, /recommend returns that name whatever the   *)
(* rule-based lookup would pick; when it is anything else the result is    *)
(* the rule-based department.                                              *)
(***************************************************************************)
C8_ExactReplyWinsElseFallback ==
    (RecommendHandled /\ response.status = 200 /\ invoked.called /\ ~invoked.raises) =>
        IF \E name \in AllowList : TrimsTo(invoked.content, name)
        THEN TrimsTo(invoked.content, response.recommended_department)
        ELSE /\ Maximal(AskedSymptoms, response.recommended_department)
             /\ response.recommended_department =
                   RecommendMostCommon(hashSeed, DeptsOf(AskedSymptoms))

C8_Witness ==
    /\ RecommendHandled /\ response.status = 200
    /\ invoked.called /\ invoked.content = "  Neurology\n"
    /\ AskedSymptoms = <<"mual">>
    /\ response.recommended_department = "Neurology"

(***************************************************************************)
(* C9: the majority selection of an empty symptom list is General          *)
(* Medicine, in the expression of /recommend and in that of /stats.        *)
(***************************************************************************)
C9_EmptyListGivesGeneralMedicine ==
    (request.endpoint \in {"main.py:111", "main.py:152"} /\ AskedSymptoms = <<>>) =>
        response.recommended_department = "General Medicine"

(***************************************************************************)
(* C10: handling a /stats request makes no call to the collaborator, and   *)
(* its response is fixed by the batch alone, whatever the state of the     *)
(* chain and the number of calls made before.                              *)
(***************************************************************************)
C10_StatsNeverInvokesChain ==
    /\ [][request'.endpoint = "/stats" =>
            (llmCalls' = llmCalls /\ ~invoked'.called)]_vars
    /\ [](StatsHandled => response = StatsResponse(request.patients))

C10_Witness ==
    /\ StatsHandled /\ response.status = 200
    /\ chain = RunnableSequence /\ llmCalls >= 1

====
